---- MODULE Spec2Model ----
(***************************************************************************)
(* Database lifecycle of maxmind-geoip-api: the startup refresh, the       *)
(* SIGHUP task and the 24-hour timer task (src/main.rs), each running      *)
(* download_database / save_mmdb (src/utils.rs) on a shared data           *)
(* directory, and the RwLock-guarded reader that lookups read.             *)
(*                                                                         *)
(* The tokio runtime is multi-threaded: the three tasks and the request    *)
(* handlers interleave at every step below.                                *)
(***************************************************************************)
EXTENDS Integers, Sequences, FiniteSets, TLC

\* ------------------------------------------------------------- bounds
MaxVer == 2
MaxTriggers == 2
MaxDepth == 3
NumRequests == 1

\* ------------------------------------------------------------- values
Tasks == {"main", "sighup", "timer"}
Background == {"sighup", "timer"}
Requests == 1..NumRequests

\* Option<T> is a set with at most one element.
None == {}
Some(x) == {x}
Unwrap(o) == CHOOSE x \in o : TRUE

\* A file's bytes: the container layers around it, outermost first, and the
\* payload inside (core 0: bytes that are no database; v >= 1: database v).
Raw(v) == [wrap |-> <<>>, core |-> v]
EmptyFile == Raw(0)
Wrapped(f, c) == [wrap |-> <<f>> \o c.wrap, core |-> c.core]
Unrelated == [wrap |-> <<"unrelated">>, core |-> 0]

\* maxminddb::Reader::open_mmap succeeds on the bytes c.
Openable(c) == c.wrap = <<>> /\ c.core >= 1

\* file_format::FileFormat::from_file: the format of the outermost layer.
FileFormat(c) == IF c.wrap = <<>> THEN "raw" ELSE Head(c.wrap)

\* The branches of the loop of save_mmdb that peel a layer.  The third
\* branch of the source tests Gzip a second time, so Bzip2 has no branch.
IsArchive(fmt) == fmt \in {"tar", "zip"}
IsCompressed(fmt) == fmt \in {"gz", "xz"}

\* An archive holds an entry whose name ends in .mmdb.
HasEntry(c) == FileFormat([wrap |-> Tail(c.wrap), core |-> c.core]) # "unrelated"
Inner(c) == [wrap |-> Tail(c.wrap), core |-> c.core]

\* The response bodies the remote serves.
Bodies ==
  {Raw(v) : v \in 1..MaxVer} \cup
  {EmptyFile, Wrapped("gz", Raw(MaxVer)), Wrapped("tar", Unrelated)}

\* A response header value: the entity tag it carries, and whether
\* HeaderValue::to_str accepts its bytes.
Header(v, a) == [tag |-> v, ascii |-> a]

\* The 200 responses: a body with its ETag header (the tag names the body's
\* version), or a database without one, or with one to_str rejects.
Responses ==
  {[body |-> b, etag |-> Some(Header(b.core, TRUE))] : b \in Bodies} \cup
  {[body |-> Raw(MaxVer), etag |-> e] : e \in {None, Some(Header(MaxVer, FALSE))}}

NoResp == [body |-> EmptyFile, etag |-> None]

VARIABLES
  url,        \* MAXMIND_DB_URL is set
  pc,         \* each task's position
  resp,       \* each task's 200 response (etag header, body)
  rpath,      \* read_path of save_mmdb ("temp" or "temp2")
  fd,         \* where the inode behind temp_file is now linked
  sent,       \* the If-None-Match header of the request in flight
  outcome,    \* how each task's latest cycle ended: [kind, result]
  fs,         \* database.mmdb, database.mmdb.temp, database.mmdb.temp2
  etag,       \* the etag file
  stamp,      \* the stamp file: "none", or when it was last written: "fresh"
              \* (in the running interval period), "aging" (before it began,
              \* less than 24h ago), "old" (24h ago or more)
  reader,     \* READER_LOCK: the live handle
  newReader,  \* new_reader of reload_database
  writer,     \* the task holding the write lock
  rpc,        \* each request's position
  seen,       \* the handle a request read under its read lock
  listener,   \* "unbound" or "bound"
  exited,     \* "no", "exit1" (process::exit(1)), "panic" (main panicked)
  sigPending, \* "no", or a SIGHUP waits in the signal stream: it arrived
              \* while no cycle was running ("idle") or during one ("busy")
  nTriggers,  \* SIGHUPs delivered and interval periods elapsed so far
  ticksDue,   \* interval ticks elapsed and not yet consumed
  dbFrom,     \* ETag of the response database.mmdb was installed from
  served,     \* how the SIGHUP being served arrived ("no": none is served)
  pre         \* database.mmdb and the etag file when each task's cycle began

taskVars == <<pc, resp, rpath, fd, sent, outcome>>
fileVars == <<fs, etag, stamp>>
regVars == <<reader, newReader, writer>>
reqVars == <<rpc, seen>>
procVars == <<listener, exited>>
trigVars == <<sigPending, nTriggers, ticksDue>>
ghostVars == <<dbFrom, served, pre>>
vars == <<url, taskVars, fileVars, regVars, reqVars, procVars, trigVars, ghostVars>>

\* ------------------------------------------------------------- helpers
Paths == {"db", "temp", "temp2"}
IsFile(p) == fs[p] # None
Other(p) == IF p = "temp" THEN "temp2" ELSE "temp"

CyclePcs == {"send", "response", "copy", "save", "rename", "etag", "stamp"}
ReloadPcs == {"reload", "write_lock", "store1", "store2"}
InCycle(t) == pc[t] \in CyclePcs
Running == exited = "no"

\* download_database(force): main.rs:103 passes false, main.rs:96 and
\* main.rs:118 pass true.
\* Force with no caller passing true.
Force_Never(t) == FALSE

\* Force with the timer task passing false.
Force_OnlySighup(t) == t = "sighup"

Force(t) == t # "main"

\* utils.rs:214-220: the If-None-Match header of the request: the content of
\* the etag file when database.mmdb and the etag file both exist.
\* IfNoneMatch with a forced call sending no validator.
IfNoneMatch_UnlessForced(t) ==
  IF ~Force(t) /\ IsFile("db") /\ etag # None THEN etag ELSE None

IfNoneMatch(t) == IF IsFile("db") /\ etag # None THEN etag ELSE None

\* Where a background task waits for its trigger.
IdlePc(t) == IF t = "sighup" THEN "recv" ELSE "tick"

NoPre == [db |-> None, etag |-> None]

\* utils.rs:198-203: duration_since < one_day for the stamp's modification
\* time.
Young(s) == s \in {"fresh", "aging"}

\* fs::write(stamp_path, ""): the modification time becomes now, which is
\* before the first interval period as long as main.rs:114 has not run.
StampNow == IF pc["timer"] = "unspawned" THEN "aging" ELSE "fresh"


Init ==
  /\ url \in BOOLEAN
  /\ pc = [t \in Tasks |->
             IF t = "main" THEN "send" ELSE IF t = "sighup" THEN "init" ELSE "unspawned"]
  /\ resp = [t \in Tasks |-> NoResp]
  /\ rpath = [t \in Tasks |-> "temp"]
  /\ fd = [t \in Tasks |-> "none"]
  /\ sent = [t \in Tasks |-> None]
  /\ outcome = [t \in Tasks |-> [kind |-> "none", result |-> "none"]]
  /\ \E d \in {None, Some(Raw(1))} :
       /\ fs = [p \in Paths |-> IF p = "db" THEN d ELSE None]
       /\ etag \in (IF d = None THEN {None} ELSE {None, Some(1)})
       /\ stamp \in (IF d = None THEN {"none"} ELSE {"none", "aging", "old"})
       /\ dbFrom = etag
       /\ pre = [t \in Tasks |-> IF t = "main" THEN [db |-> d, etag |-> etag] ELSE NoPre]
  /\ reader = None
  /\ newReader = [t \in Tasks |-> None]
  /\ writer = "none"
  /\ rpc = [r \in Requests |-> "idle"]
  /\ seen = [r \in Requests |-> None]
  /\ listener = "unbound"
  /\ exited = "no"
  /\ sigPending = "no"
  /\ served = "no"
  /\ nTriggers = 0
  /\ ticksDue = 0

\* ------------------------------------------------- calling download_database
\* What the caller does with the result: main exits on Err and goes on to
\* load the database on Ok; the SIGHUP and timer tasks call reload_database
\* on Ok and log on Err.
\* OnResult with the Err arm of the SIGHUP and timer tasks calling
\* reload_database too.
OnResult_ReloadOnErr(t, r) ==
  IF t = "main"
    THEN (IF r = "Ok" THEN "load" ELSE "fail")
    ELSE "reload"

\* OnResult with main going on after a failed startup cycle.
OnResult_NoExit(t, r) ==
  IF t = "main"
    THEN "load"
    ELSE (IF r = "Ok" THEN "reload" ELSE IdlePc(t))

OnResult(t, r) ==
  IF t = "main"
    THEN (IF r = "Ok" THEN "load" ELSE "fail")
    ELSE (IF r = "Ok" THEN "reload" ELSE IdlePc(t))

\* download_database returns r; k names the return statement.
Return(t, k, r) ==
  /\ pc' = [pc EXCEPT ![t] = OnResult(t, r)]
  /\ outcome' = [outcome EXCEPT ![t] = [kind |-> k, result |-> r]]
  /\ resp' = [resp EXCEPT ![t] = NoResp]
  /\ rpath' = [rpath EXCEPT ![t] = "temp"]
  /\ sent' = [sent EXCEPT ![t] = None]
  /\ served' = IF t = "sighup" THEN "no" ELSE served
  /\ pre' = [pre EXCEPT ![t] = NoPre]

\* A panic unwinds the task: in main it ends the process, in a spawned task
\* the runtime drops the task and the process goes on.
Panic(t) ==
  /\ pc' = [pc EXCEPT ![t] = IF t = "main" THEN "exited" ELSE "dead"]
  /\ exited' = IF t = "main" THEN "panic" ELSE exited

\* A task enters download_database.
Enter(t) ==
  /\ pc' = [pc EXCEPT ![t] = "send"]
  /\ outcome' = [outcome EXCEPT ![t] = [kind |-> "none", result |-> "none"]]
  /\ served' = IF t = "sighup" THEN sigPending ELSE served
  /\ pre' = [pre EXCEPT ![t] = [db |-> fs["db"], etag |-> etag]]

\* ------------------------------------------------------- download_database
\* utils.rs:175-221: no URL, the 24-hour guard, building and sending the request.
download_database_send(t) ==
  /\ Running /\ pc[t] = "send"
  /\ UNCHANGED <<url, fileVars, regVars, reqVars, listener, trigVars, dbFrom, fd>>
  /\ IF ~url
       THEN IF IsFile("db")
              THEN Return(t, "nourl", "Ok") /\ UNCHANGED exited
              ELSE /\ exited' = "exit1"
                   /\ outcome' = [outcome EXCEPT ![t] = [kind |-> "nourl", result |-> "exit"]]
                   /\ UNCHANGED <<pc, resp, rpath, sent, served, pre>>
       ELSE IF ~Force(t) /\ IsFile("db") /\ Young(stamp)
              THEN Return(t, "skipped", "Ok") /\ UNCHANGED exited
              ELSE /\ sent' = [sent EXCEPT ![t] = IfNoneMatch(t)]
                   /\ pc' = [pc EXCEPT ![t] = "response"]
                   /\ UNCHANGED <<resp, rpath, outcome, served, pre, exited>>

\* utils.rs:224-227: 304 Not Modified: the stamp is written, Ok(()).
\* not_modified without the write of the stamp.
not_modified_NoStamp(t) ==
  /\ Return(t, "notmodified", "Ok")
  /\ UNCHANGED <<fs, fd, stamp>>

not_modified(t) ==
  /\ stamp' = StampNow
  /\ Return(t, "notmodified", "Ok")
  /\ UNCHANGED <<fs, fd>>

\* utils.rs:228-254: a status other than 200 and 304: Ok(()) when
\* database.mmdb is a file, Err with the status code otherwise.
\* other_status returning Err whether or not database.mmdb exists.
other_status_AlwaysErr(t) ==
  /\ Return(t, "status", "Err")
  /\ UNCHANGED <<fs, stamp, fd>>

other_status(t) ==
  /\ IF IsFile("db") THEN Return(t, "status", "Ok") ELSE Return(t, "status", "Err")
  /\ UNCHANGED <<fs, stamp, fd>>

\* utils.rs:221-260: the request's outcome, the status code, and on 200 the
\* creation (or truncation) of database.mmdb.temp.
download_database_response(t) ==
  /\ Running /\ pc[t] = "response"
  /\ UNCHANGED <<url, regVars, reqVars, procVars, trigVars, dbFrom, etag>>
  /\ \/ \* request.send() fails at the network level
        /\ Return(t, "neterr", "Err")
        /\ UNCHANGED <<fs, stamp, fd>>
     \/ \* 304 Not Modified, the answer to a conditional request
        /\ sent[t] # None
        /\ not_modified(t)
     \/ \* any status other than 200 and 304
        other_status(t)
     \/ \* a file system error: File::create(temp_path) on 200, or the write
        \* of the stamp on 304
        /\ Return(t, "ioerr", "Err")
        /\ UNCHANGED <<fs, stamp, fd>>
     \/ \* 200
        \E r \in Responses :
          /\ resp' = [resp EXCEPT ![t] = r]
          /\ fs' = [fs EXCEPT !["temp"] = Some(EmptyFile)]
          /\ fd' = [fd EXCEPT ![t] = "temp"]
          /\ pc' = [pc EXCEPT ![t] = "copy"]
          /\ UNCHANGED <<rpath, sent, outcome, served, pre, stamp>>

\* utils.rs:261-264: the body is written through temp_file, to whatever
\* path the inode opened at database.mmdb.temp is linked at by now, and the
\* buffer that held it is consumed.
download_database_copy(t) ==
  /\ Running /\ pc[t] = "copy"
  /\ UNCHANGED <<url, regVars, reqVars, procVars, trigVars, dbFrom, etag, stamp>>
  /\ fd' = [fd EXCEPT ![t] = "none"]
  /\ \/ \* response.bytes() fails
        /\ Return(t, "neterr", "Err")
        /\ UNCHANGED fs
     \/ /\ fs' = IF fd[t] \in Paths
                   THEN [fs EXCEPT ![fd[t]] = Some(resp[t].body)]
                   ELSE fs
        /\ resp' = [resp EXCEPT ![t].body = EmptyFile]
        /\ pc' = [pc EXCEPT ![t] = "save"]
        /\ UNCHANGED <<rpath, sent, outcome, served, pre>>

\* utils.rs:266-273: save_mmdb returned Err.
SaveErr(t) ==
  IF IsFile("db") THEN Return(t, "rejected", "Ok") ELSE Return(t, "rejected", "Err")

\* The inode a descriptor holds, after path p was unlinked.
FdAfterRemove(p) == [u \in Tasks |-> IF fd[u] = p THEN "gone" ELSE fd[u]]
\* ... and after path p was renamed onto database.mmdb.
FdAfterRename(p) ==
  [u \in Tasks |-> IF fd[u] = p THEN "db" ELSE IF fd[u] = "db" THEN "gone" ELSE fd[u]]

\* utils.rs:62-152: one turn of the loop of save_mmdb, and after the loop
\* the validation of the candidate.
save_mmdb_loop(t) ==
  LET rp == rpath[t]
      wp == Other(rpath[t])
  IN
  /\ Running /\ pc[t] = "save"
  /\ UNCHANGED <<url, regVars, reqVars, procVars, trigVars, dbFrom, etag, stamp>>
  /\ IF ~IsFile(rp)
       THEN \* FileFormat::from_file fails
            SaveErr(t) /\ UNCHANGED <<fs, fd>>
       ELSE LET c == Unwrap(fs[rp])
                fmt == FileFormat(c)
            IN
            IF (IsArchive(fmt) /\ HasEntry(c)) \/ IsCompressed(fmt)
              THEN /\ fs' = [fs EXCEPT ![wp] = Some(Inner(c)), ![rp] = None]
                   /\ fd' = FdAfterRemove(rp)
                   /\ rpath' = [rpath EXCEPT ![t] = wp]
                   /\ UNCHANGED <<pc, resp, sent, outcome, served, pre>>
            ELSE IF IsArchive(fmt)
              THEN \* write_path was created, no entry matched
                   /\ fs' = [fs EXCEPT ![wp] = Some(EmptyFile)]
                   /\ SaveErr(t)
                   /\ UNCHANGED fd
            ELSE IF Openable(c)
              THEN /\ pc' = [pc EXCEPT ![t] = "rename"]
                   /\ UNCHANGED <<fs, fd, resp, rpath, sent, outcome, served, pre>>
              ELSE /\ fs' = [fs EXCEPT ![rp] = None]
                   /\ fd' = FdAfterRemove(rp)
                   /\ SaveErr(t)

\* utils.rs:154: fs::rename(read_path, destination_path).
save_mmdb_rename(t) ==
  LET rp == rpath[t] IN
  /\ Running /\ pc[t] = "rename"
  /\ UNCHANGED <<url, regVars, reqVars, procVars, trigVars, etag, stamp>>
  /\ IF IsFile(rp)
       THEN /\ fs' = [fs EXCEPT !["db"] = fs[rp], ![rp] = None]
            /\ fd' = FdAfterRename(rp)
            /\ dbFrom' = IF resp[t].etag = None THEN None
                         ELSE Some(Unwrap(resp[t].etag).tag)
            /\ pc' = [pc EXCEPT ![t] = "etag"]
            /\ UNCHANGED <<resp, rpath, sent, outcome, served, pre>>
       ELSE SaveErr(t) /\ UNCHANGED <<fs, fd, dbFrom>>

\* utils.rs:275-280: the ETag header, when there is one, is written to the
\* etag file; to_str().expect panics on a value that is not visible ASCII.
download_database_etag(t) ==
  /\ Running /\ pc[t] = "etag"
  /\ UNCHANGED <<url, regVars, reqVars, listener, trigVars, dbFrom, fs, stamp, fd>>
  /\ IF resp[t].etag # None /\ ~Unwrap(resp[t].etag).ascii
       THEN /\ Panic(t)
            /\ outcome' = [outcome EXCEPT ![t] = [kind |-> "panic", result |-> "panic"]]
            /\ UNCHANGED <<etag, resp, rpath, sent, served, pre>>
       ELSE /\ etag' = IF resp[t].etag = None THEN etag
                       ELSE Some(Unwrap(resp[t].etag).tag)
            /\ pc' = [pc EXCEPT ![t] = "stamp"]
            /\ UNCHANGED <<exited, resp, rpath, sent, outcome, served, pre>>

\* utils.rs:282-294: the stamp is written and the installed file opened.
download_database_stamp(t) ==
  /\ Running /\ pc[t] = "stamp"
  /\ UNCHANGED <<url, regVars, reqVars, procVars, trigVars, dbFrom, fs, etag, fd>>
  /\ \/ \* fs::write(stamp_path) fails
        /\ Return(t, "ioerr", "Err")
        /\ UNCHANGED stamp
     \/ /\ stamp' = StampNow
        /\ IF IsFile("db") /\ Openable(Unwrap(fs["db"]))
             THEN Return(t, "installed", "Ok")
             ELSE Return(t, "verify", "Err")

\* ------------------------------------------------------------ the registry
\* load_database: Reader::open_mmap(database_path()).expect(..) succeeds.
LoadOk == IsFile("db") /\ Openable(Unwrap(fs["db"]))
\* The Reader<Mmap> it returns: the mapping of the bytes at database.mmdb
\* at that moment, and the metadata decoded from them.
load_database ==
  [buf |-> Unwrap(fs["db"]).core, metadata |-> Unwrap(fs["db"]).core]

\* RwLock: read() is granted while no writer holds the lock, write() while
\* nobody holds it.
\* CanRead with read() granted while a writer holds the lock.
CanRead_IgnoreWriter == TRUE

CanRead == writer = "none"
CanWrite == writer = "none" /\ \A r \in Requests : rpc[r] = "idle"

\* main.rs:45: let new_reader = load_database();
reload_database_load(t) ==
  /\ Running /\ pc[t] = "reload"
  /\ UNCHANGED <<url, fileVars, reqVars, listener, trigVars, ghostVars,
                 resp, rpath, fd, sent, outcome, reader, writer>>
  /\ IF LoadOk
       THEN /\ newReader' = [newReader EXCEPT ![t] = Some(load_database)]
            /\ pc' = [pc EXCEPT ![t] = "write_lock"]
            /\ UNCHANGED exited
       ELSE Panic(t) /\ UNCHANGED newReader

\* main.rs:46-48: reader_lock() (which loads the database when the slot was
\* never initialised), then write().
reload_database_write(t) ==
  /\ Running /\ pc[t] = "write_lock"
  /\ UNCHANGED <<url, fileVars, reqVars, listener, trigVars, ghostVars,
                 resp, rpath, fd, sent, outcome, newReader>>
  /\ IF reader = None
       THEN IF LoadOk
              THEN /\ reader' = Some(load_database)
                   /\ UNCHANGED <<pc, exited, writer>>
              ELSE Panic(t) /\ UNCHANGED <<reader, writer>>
       ELSE /\ CanWrite
            /\ writer' = t
            /\ pc' = [pc EXCEPT ![t] = "store1"]
            /\ UNCHANGED <<reader, exited>>

\* main.rs:49: *reader = new_reader, a move of the whole struct into the
\* slot: first one part of it ...
reload_database_store1(t) ==
  /\ Running /\ pc[t] = "store1"
  /\ reader' = Some([buf |-> Unwrap(newReader[t]).buf,
                     metadata |-> Unwrap(reader).metadata])
  /\ pc' = [pc EXCEPT ![t] = "store2"]
  /\ UNCHANGED <<url, fileVars, reqVars, procVars, trigVars, ghostVars,
                 resp, rpath, fd, sent, outcome, newReader, writer>>

\* ... then the rest; the guard is dropped at main.rs:50.
reload_database_store2(t) ==
  /\ Running /\ pc[t] = "store2"
  /\ reader' = newReader[t]
  /\ writer' = "none"
  /\ newReader' = [newReader EXCEPT ![t] = None]
  /\ pc' = [pc EXCEPT ![t] = IdlePc(t)]
  /\ UNCHANGED <<url, fileVars, reqVars, procVars, trigVars, ghostVars,
                 resp, rpath, fd, sent, outcome>>

\* main.rs:54, main.rs:69: reader_lock().read()
lookup_read_lock(r) ==
  /\ Running /\ listener = "bound" /\ rpc[r] = "idle"
  /\ CanRead
  /\ rpc' = [rpc EXCEPT ![r] = "locked"]
  /\ UNCHANGED <<url, taskVars, fileVars, regVars, seen, procVars, trigVars, ghostVars>>

\* main.rs:55-60, main.rs:70-81: the handler reads the handle behind the guard.
lookup_read(r) ==
  /\ Running /\ rpc[r] = "locked"
  /\ seen' = [seen EXCEPT ![r] = reader]
  /\ rpc' = [rpc EXCEPT ![r] = "respond"]
  /\ UNCHANGED <<url, taskVars, fileVars, regVars, procVars, trigVars, ghostVars>>

\* main.rs:62, main.rs:83: the handler returns and drops the guard.
lookup_respond(r) ==
  /\ Running /\ rpc[r] = "respond"
  /\ seen' = [seen EXCEPT ![r] = None]
  /\ rpc' = [rpc EXCEPT ![r] = "idle"]
  /\ UNCHANGED <<url, taskVars, fileVars, regVars, procVars, trigVars, ghostVars>>

\* -------------------------------------------------------------------- main
\* main.rs:104-105: the startup cycle failed.
main_exit ==
  /\ Running /\ pc["main"] = "fail"
  /\ exited' = "exit1"
  /\ pc' = [pc EXCEPT !["main"] = "exited"]
  /\ UNCHANGED <<url, resp, rpath, fd, sent, outcome, fileVars, regVars, reqVars,
                 listener, trigVars, ghostVars>>

\* main.rs:109: reader_lock(), which loads the database unless the SIGHUP
\* task's reload_database already did.
main_reader_lock ==
  /\ Running /\ pc["main"] = "load"
  /\ UNCHANGED <<url, resp, rpath, fd, sent, outcome, fileVars, reqVars,
                 listener, trigVars, ghostVars, newReader, writer>>
  /\ IF reader # None
       THEN /\ pc' = [pc EXCEPT !["main"] = "spawn"]
            /\ UNCHANGED <<reader, exited>>
       ELSE IF LoadOk
         THEN /\ reader' = Some(load_database)
              /\ pc' = [pc EXCEPT !["main"] = "spawn"]
              /\ UNCHANGED exited
         ELSE Panic("main") /\ UNCHANGED reader

\* main.rs:112-124: the timer task is spawned when MAXMIND_DB_URL is set.
main_spawn_timer ==
  /\ Running /\ pc["main"] = "spawn"
  /\ pc' = [pc EXCEPT !["main"] = "bind",
                      !["timer"] = IF url THEN "tick" ELSE "unspawned"]
  /\ UNCHANGED <<url, resp, rpath, fd, sent, outcome, fileVars, regVars, reqVars,
                 procVars, trigVars, ghostVars>>

\* main.rs:132-166: HttpServer::new(..).bind(..)?.run()
main_bind ==
  /\ Running /\ pc["main"] = "bind"
  /\ UNCHANGED <<url, resp, rpath, fd, sent, outcome, fileVars, regVars, reqVars,
                 trigVars, ghostVars>>
  /\ \/ /\ listener' = "bound"
        /\ pc' = [pc EXCEPT !["main"] = "serving"]
        /\ UNCHANGED exited
     \/ \* bind fails and main returns the error
        /\ exited' = "exit1"
        /\ pc' = [pc EXCEPT !["main"] = "exited"]
        /\ UNCHANGED listener

\* ----------------------------------------------------------- the SIGHUP task
\* main.rs:94: signal(SignalKind::hangup())
sighup_register ==
  /\ Running /\ pc["sighup"] = "init"
  /\ pc' = [pc EXCEPT !["sighup"] = "recv"]
  /\ UNCHANGED <<url, resp, rpath, fd, sent, outcome, fileVars, regVars, reqVars,
                 procVars, trigVars, ghostVars>>

\* The process is sent a SIGHUP.  The signal stream remembers that a signal
\* arrived since the last recv(), not how many.
SignalArrives ==
  /\ Running /\ pc["sighup"] # "init" /\ nTriggers < MaxTriggers
  /\ sigPending' = IF sigPending # "no" THEN sigPending
                   ELSE IF \E u \in Tasks : InCycle(u) THEN "busy" ELSE "idle"
  /\ nTriggers' = nTriggers + 1
  /\ UNCHANGED <<url, taskVars, fileVars, regVars, reqVars, procVars,
                 ticksDue, ghostVars>>

\* main.rs:95-96: sighup.recv() yields and download_database(true) is called.
sighup_recv ==
  /\ Running /\ pc["sighup"] = "recv" /\ sigPending # "no"
  /\ sigPending' = "no"
  /\ Enter("sighup")
  /\ UNCHANGED <<url, resp, rpath, fd, sent, fileVars, regVars, reqVars, procVars,
                 nTriggers, ticksDue, dbFrom>>

\* ------------------------------------------------------------ the timer task
\* 24 hours pass on the interval of main.rs:114 (a tick the task is too busy
\* to take is kept and delivered late); a stamp written before the period
\* began is now older than a day, one written during it is not yet.
IntervalElapses ==
  /\ Running /\ pc["timer"] # "unspawned" /\ nTriggers < MaxTriggers
  /\ ticksDue' = ticksDue + 1
  /\ nTriggers' = nTriggers + 1
  /\ stamp' = IF stamp = "fresh" THEN "aging"
              ELSE IF stamp = "aging" THEN "old" ELSE stamp
  /\ UNCHANGED <<url, taskVars, fs, etag, regVars, reqVars, procVars,
                 sigPending, ghostVars>>

\* main.rs:117-118: interval.tick() yields and download_database(true) is called.
timer_tick ==
  /\ Running /\ pc["timer"] = "tick" /\ ticksDue > 0
  /\ ticksDue' = ticksDue - 1
  /\ Enter("timer")
  /\ UNCHANGED <<url, resp, rpath, fd, sent, fileVars, regVars, reqVars, procVars,
                 sigPending, nTriggers, dbFrom>>

\* ------------------------------------------------------------ specification
Next ==
  \/ \E t \in Tasks :
       \/ download_database_send(t)
       \/ download_database_response(t)
       \/ download_database_copy(t)
       \/ save_mmdb_loop(t)
       \/ save_mmdb_rename(t)
       \/ download_database_etag(t)
       \/ download_database_stamp(t)
  \/ \E t \in Background :
       \/ reload_database_load(t)
       \/ reload_database_write(t)
       \/ reload_database_store1(t)
       \/ reload_database_store2(t)
  \/ \E r \in Requests :
       \/ lookup_read_lock(r)
       \/ lookup_read(r)
       \/ lookup_respond(r)
  \/ main_exit
  \/ main_reader_lock
  \/ main_spawn_timer
  \/ main_bind
  \/ sighup_register
  \/ SignalArrives
  \/ sighup_recv
  \/ IntervalElapses
  \/ timer_tick

Spec == Init /\ [][Next]_vars

\* ----------------------------------------------------- save_mmdb on its own
\* The container formats save_mmdb has a branch for (utils.rs:65-135).
Formats == {"tar", "gz", "bz2", "xz", "zip"}

\* A valid database wrapped in up to MaxDepth layers of them; the archives
\* hold the database as an entry named *.mmdb.
Payloads ==
  {[wrap |-> w, core |-> v] :
     w \in UNION {[1..k -> Formats] : k \in 0..MaxDepth}, v \in 1..MaxVer}

\* download_database at utils.rs:266, about to call save_mmdb: the body of a
\* 200 response, whose ETag names the version of the database inside, has
\* been copied to database.mmdb.temp.
InitExtract ==
  /\ url = TRUE
  /\ pc = [t \in Tasks |->
             IF t = "main" THEN "save" ELSE IF t = "sighup" THEN "init" ELSE "unspawned"]
  /\ rpath = [t \in Tasks |-> "temp"]
  /\ fd = [t \in Tasks |-> "none"]
  /\ sent = [t \in Tasks |-> None]
  /\ outcome = [t \in Tasks |-> [kind |-> "none", result |-> "none"]]
  /\ \E d \in {None, Some(Raw(1))}, b \in Payloads :
       /\ fs = [p \in Paths |-> IF p = "db" THEN d ELSE IF p = "temp" THEN Some(b) ELSE None]
       /\ resp = [t \in Tasks |->
                    IF t = "main"
                      THEN [body |-> EmptyFile, etag |-> Some(Header(b.core, TRUE))]
                      ELSE NoResp]
       /\ pre = [t \in Tasks |-> IF t = "main" THEN [db |-> d, etag |-> None] ELSE NoPre]
  /\ etag = None
  /\ stamp = "none"
  /\ dbFrom = None
  /\ reader = None
  /\ newReader = [t \in Tasks |-> None]
  /\ writer = "none"
  /\ rpc = [r \in Requests |-> "idle"]
  /\ seen = [r \in Requests |-> None]
  /\ listener = "unbound"
  /\ exited = "no"
  /\ sigPending = "no"
  /\ served = "no"
  /\ nTriggers = 0
  /\ ticksDue = 0

NextExtract ==
  \/ save_mmdb_loop("main")
  \/ save_mmdb_rename("main")

SpecExtract == InitExtract /\ [][NextExtract]_vars

\* ------------------------------------- a remote whose version only grows
\* The version the remote holds when it answers a task's request: the
\* startup request reaches it first, a SIGHUP cycle's request later.
Ver(t) == IF t = "main" THEN 1 ELSE MaxVer

\* The SIGHUP task's request goes out after the startup call's.
ordered_send(t) ==
  /\ t = "sighup" => pc["main"] # "send"
  /\ download_database_send(t)

\* A 200 carries the version the remote held for that request.
ordered_response(t) ==
  /\ download_database_response(t)
  /\ pc'[t] = "copy" => resp'[t].body.core = Ver(t)

NextOrdered ==
  \/ \E t \in {"main", "sighup"} :
       \/ ordered_send(t)
       \/ ordered_response(t)
       \/ download_database_copy(t)
       \/ save_mmdb_loop(t)
       \/ save_mmdb_rename(t)
       \/ download_database_etag(t)
       \/ download_database_stamp(t)
  \/ reload_database_load("sighup")
  \/ reload_database_write("sighup")
  \/ reload_database_store1("sighup")
  \/ reload_database_store2("sighup")
  \/ main_exit
  \/ main_reader_lock
  \/ main_spawn_timer
  \/ main_bind
  \/ sighup_register
  \/ SignalArrives
  \/ sighup_recv

SpecOrdered == Init /\ [][NextOrdered]_vars

\* =================================================================== claims

\* C1 (as claimed): at most one execution of download_database is between
\* its start and its return at any instant, across the startup call, the
\* SIGHUP task and the timer task.
C1_AtMostOneCycleInFlight ==
  Cardinality({t \in Tasks : InCycle(t)}) <= 1

\* C2 (as claimed): a reload signal that arrives while a cycle is running is
\* dropped: the SIGHUP task issues an HTTP request only for a signal that
\* arrived while no cycle was running, and never while another cycle runs.
C2_BusyTriggerDropped ==
  pc["sighup"] = "response" =>
    /\ served = "idle"
    /\ \A u \in Tasks \ {"sighup"} : ~InCycle(u)

\* C3 (as claimed): database.mmdb either does not exist or holds a file the
\* database library can open.
C3_CanonicalPathValid ==
  IsFile("db") => Openable(Unwrap(fs["db"]))

\* C4 (as claimed): while the process runs, no task has panicked and no
\* cycle is in flight, if both database.mmdb and the etag file exist then
\* the etag file holds the entity tag of the response the current
\* database.mmdb was installed from (none, if that response carried no ETag
\* header).
C4_EtagDescribesArtifact ==
  (/\ Running
   /\ \A t \in Tasks : ~InCycle(t) /\ pc[t] # "dead"
   /\ IsFile("db") /\ etag # None)
    => etag = dbFrom

\* C5: a request that holds the read guard has read one whole handle (its
\* buffer and its metadata come from the same open), and that handle is
\* the live one for as long as the guard is held: a
\* reload_database swap is never seen half done, and never completes under a
\* reader, so that a request locking after the swap reads the new handle.
C5_ReadsSeeOneLiveHandle ==
  /\ \A r \in Requests :
       rpc[r] = "respond" =>
         /\ seen[r] # None
         /\ Unwrap(seen[r]).buf = Unwrap(seen[r]).metadata
         /\ seen[r] = reader
  /\ (writer = "none" /\ reader # None) => Unwrap(reader).buf = Unwrap(reader).metadata

\* C5 witness: a request holds the guard on the handle it read while a
\* reload_database with a different, newly opened handle waits to swap.
C5_ReadDuringReload ==
  \E r \in Requests, t \in Background :
    /\ rpc[r] = "respond"
    /\ pc[t] = "write_lock"
    /\ newReader[t] # seen[r]
    /\ seen[r] = reader

\* C6 (as claimed): reload_database runs only after a cycle that installed a
\* new artifact.
C6_ReloadOnlyAfterInstall ==
  \A t \in Background : pc[t] \in ReloadPcs => outcome[t].kind = "installed"

\* C6 (amended): reload_database runs exactly once after every SIGHUP or
\* timer cycle in which download_database returned Ok, whether the cycle
\* installed a new artifact or not, and a cycle in which download_database
\* returned Err goes back to waiting without reload_database and without a
\* change of the live handle; the live handle is replaced only inside
\* reload_database.
C6_ReloadAfterEveryOk ==
  [][\A t \in Background :
       /\ (InCycle(t) /\ ~InCycle(t)' /\ outcome'[t].result = "Ok")
            => pc'[t] = "reload"
       /\ (InCycle(t) /\ ~InCycle(t)' /\ outcome'[t].result = "Err")
            => (pc'[t] = IdlePc(t) /\ reader' = reader)
       /\ (pc'[t] = "reload" /\ pc[t] # "reload")
            => (InCycle(t) /\ outcome'[t].result = "Ok")
       /\ (pc[t] = "store2" /\ pc'[t] # "store2") => pc'[t] = IdlePc(t)
       /\ (reader # None /\ reader' # reader)
            => \E u \in Background :
                 pc[u] \in {"store1", "store2"} /\ outcome[u].result = "Ok"
    ]_vars

\* C6 witness: a cycle that ended on 304 is replacing the live handle.
C6_UnchangedCycleReloads ==
  \E t \in Background : pc[t] = "store2" /\ outcome[t].kind = "notmodified"

\* C7 (as claimed): when database.mmdb exists, a network-level failure of
\* the startup cycle's request does not make the startup fail.
C7_NetworkFailureDegrades ==
  ~(pc["main"] = "fail" /\ outcome["main"].kind = "neterr" /\ IsFile("db"))

\* C8: the listener is bound only when the startup cycle returned Ok and the
\* live handle is loaded; after a startup cycle that did not return Ok the
\* listener stays unbound and main does nothing but exit.
C8_ListenerAfterStartup ==
  /\ [](listener = "bound" => (outcome["main"].result = "Ok" /\ reader # None))
  /\ [](outcome["main"].result \in {"Err", "exit", "panic"} => listener = "unbound")
  /\ [][pc["main"] = "fail" => pc'["main"] \in {"fail", "exited"}]_vars
  /\ [][(exited = "no" /\ exited' # "no") => listener' = listener]_vars

\* C8 witness: the listener is bound, after a startup cycle that installed
\* a database.
C8_BoundAfterInstall ==
  listener = "bound" /\ outcome["main"].kind = "installed" /\ reader # None

\* C9 (as claimed): once startup has succeeded the process keeps running
\* and no task panics.
C9_FailuresContained ==
  pc["main"] \in {"spawn", "bind", "serving"} =>
    (exited = "no" /\ \A t \in Background : pc[t] # "dead")

\* C10 (as claimed): a cycle that rejects the payload of a 200 response,
\* with an artifact installed, ends with database.mmdb and the etag file as
\* they were when it began, and the reload_database that follows it puts in
\* place a handle equal to the live one.
C10_RejectedPayloadChangesNothing ==
  /\ [][\A t \in Tasks :
          (InCycle(t) /\ outcome'[t].kind = "rejected" /\ pre[t].db # None)
            => (fs'["db"] = pre[t].db /\ etag' = pre[t].etag)]_vars
  /\ [](\A t \in Background :
          (pc[t] = "store1" /\ outcome[t].kind = "rejected")
            => newReader[t] = reader)
\* C11 (as claimed): when database.mmdb exists at the start of a SIGHUP or
\* timer cycle, and the cycle gets a 200 with a valid payload (one whose
\* tag names a version, 1 or more) and an ETag and installs it, then on return of download_database database.mmdb holds
\* that payload and the etag file that ETag, and when the handler has
\* finished reload_database the live handle is one opened on it.
C11_RefreshPropagated ==
  /\ [][\A t \in Background :
          (/\ pc[t] = "stamp" /\ outcome'[t].kind = "installed"
           /\ pre[t].db # None /\ resp[t].etag # None
           /\ Unwrap(resp[t].etag).tag >= 1)
            => /\ fs'["db"] = Some(Raw(Unwrap(resp[t].etag).tag))
               /\ etag' = Some(Unwrap(resp[t].etag).tag)]_vars
  /\ [][\A t \in Background :
          (/\ pc[t] = "store2" /\ pc'[t] = IdlePc(t)
           /\ outcome[t].kind = "installed")
            => /\ etag' = dbFrom'
               /\ fs'["db"] # None
               /\ Openable(Unwrap(fs'["db"]))
               /\ reader' = Some([buf |-> Unwrap(fs'["db"]).core,
                                  metadata |-> Unwrap(fs'["db"]).core])]_vars

\* C12: the steps of a cycle that ends on 304 write nothing but the stamp:
\* sending the request changes no file, and the step that takes the 304
\* leaves database.mmdb, the etag file and both scratch paths as they are
\* (database.mmdb existing) and makes the stamp fresh.
C12_NotModifiedTouchesOnlyStamp ==
  [][\A t \in Tasks :
       /\ (pc[t] = "send" /\ pc'[t] = "response")
            => (fs' = fs /\ etag' = etag /\ stamp' = stamp)
       /\ (pc[t] = "response" /\ outcome'[t].kind = "notmodified")
            => /\ fs' = fs /\ IsFile("db")
               /\ etag' = etag
               /\ stamp' = (IF pc["timer"] = "unspawned" THEN "aging" ELSE "fresh")
               /\ outcome'[t].result = "Ok"]_vars

\* C12 witness: a SIGHUP or timer cycle has ended on 304, and the stamp
\* is one written in the running period.
C12_StampRefreshedBy304 ==
  \E t \in Background :
    /\ outcome[t].kind = "notmodified" /\ pc[t] \notin CyclePcs
    /\ stamp = "fresh" /\ IsFile("db") /\ etag # None

\* C15: on a status other than 200 and 304 download_database returns Ok
\* when database.mmdb exists and Err when it does not, and in both cases
\* database.mmdb, the scratch paths, the etag file and the stamp are left
\* as they were.
C15_OtherStatusDegrades ==
  [][\A t \in Tasks :
       (pc[t] = "response" /\ outcome'[t].kind = "status")
         => /\ outcome'[t].result = (IF IsFile("db") THEN "Ok" ELSE "Err")
            /\ fs' = fs /\ etag' = etag /\ stamp' = stamp]_vars

\* C15 witness: a background cycle ended Ok on such a status, with the
\* database file in place.
C15_DegradedOnStatus ==
  \E t \in Background :
    /\ outcome[t] = [kind |-> "status", result |-> "Ok"]
    /\ IsFile("db")

\* C16: with MAXMIND_DB_URL set, the non-forced call (startup) made while
\* database.mmdb exists and the stamp is younger than 24 hours returns Ok
\* without a request and without changing a file; a forced call (SIGHUP,
\* timer) goes on to send the request whatever the stamp's age.
C16_GuardOnlyWhenNotForced ==
  [][/\ (/\ pc["main"] = "send" /\ pc'["main"] # "send"
         /\ url /\ IsFile("db") /\ stamp \in {"fresh", "aging"})
          => /\ outcome'["main"] = [kind |-> "skipped", result |-> "Ok"]
             /\ pc'["main"] = "load"
             /\ fs' = fs /\ etag' = etag /\ stamp' = stamp
     /\ \A t \in Background :
          (pc[t] = "send" /\ pc'[t] # "send" /\ url)
            => pc'[t] = "response"]_vars

\* C16 witness: startup was skipped by the guard, and a forced cycle has
\* its request out although the stamp is fresh.
C16_SkippedThenForced ==
  /\ outcome["main"].kind = "skipped"
  /\ \E t \in Background :
       pc[t] = "response" /\ stamp = "aging" /\ IsFile("db")

\* C17 (as claimed): the request of a forced cycle (SIGHUP, timer) carries
\* no If-None-Match header.
C17_ForcedSendsNoValidator ==
  \A t \in Background : pc[t] = "response" => sent[t] = None

\* C17 (amended): every request, forced or not, carries If-None-Match with
\* the content of the etag file exactly when database.mmdb and the etag
\* file both exist at the time the request is built.
C17_ValidatorWheneverStored ==
  [][\A t \in Tasks :
       (pc[t] = "send" /\ pc'[t] = "response")
         => sent'[t] = (IF fs["db"] # None /\ etag # None THEN etag ELSE None)]_vars

\* C17 witness: the request of a SIGHUP cycle carries the stored validator.
C17_ForcedCycleSendsValidator ==
  pc["sighup"] = "response" /\ sent["sighup"] # None

\* C18 (as claimed): a timer cycle respects the 24-hour guard: begun while
\* database.mmdb exists and the stamp is fresh, it is skipped.
C18_TimerRespectsGuard ==
  [][(/\ pc["timer"] = "send" /\ pc'["timer"] # "send"
      /\ url /\ IsFile("db") /\ stamp \in {"fresh", "aging"})
       => outcome'["timer"].kind = "skipped"]_vars

\* C18 (amended): each tick the timer task takes starts exactly one cycle,
\* and that cycle is forced: it sends its request whatever the stamp's age,
\* with the stored validator.
C18_TimerRunsForcedCycle ==
  [][/\ (pc["timer"] = "tick" /\ pc'["timer"] # "tick")
          => (pc'["timer"] = "send" /\ ticksDue' = ticksDue - 1)
     /\ (pc["timer"] # "tick" /\ pc["timer"] # "unspawned")
          => ticksDue' >= ticksDue
     /\ (pc["timer"] = "send" /\ pc'["timer"] # "send")
          => /\ pc'["timer"] = "response"
             /\ sent'["timer"] =
                  (IF fs["db"] # None /\ etag # None THEN etag ELSE None)]_vars

\* C18 witness: a timer cycle, alone in flight, has its request out while
\* the stamp is fresh.
C18_TimerRequestDespiteFreshStamp ==
  /\ pc["timer"] = "response" /\ stamp = "aging" /\ IsFile("db")
  /\ \A u \in Tasks \ {"timer"} : ~InCycle(u)

\* C19 (as claimed): while no cycle is in progress neither scratch file
\* exists.
C19_NoScratchLeft ==
  (\A t \in Tasks : ~InCycle(t)) => (~IsFile("temp") /\ ~IsFile("temp2"))

\* C20 (as claimed): while the process runs, a SIGHUP that is pending and
\* not being kept waiting by the SIGHUP task's own cycle or reload finds
\* the task at recv(), ready to start a cycle.
C20_SighupStaysLive ==
  (/\ Running /\ sigPending # "no"
   /\ pc["sighup"] \notin (CyclePcs \cup ReloadPcs \cup {"init"}))
    => pc["sighup"] = "recv"
\* C13 (as claimed): save_mmdb, given a valid database wrapped in any nesting
\* of the supported formats, ends by installing at database.mmdb the
\* database that was wrapped (the one the response's tag names).
C13_EveryFormatInstalls ==
  pc["main"] \notin {"save", "rename"}
    => /\ pc["main"] = "etag"
       /\ resp["main"].etag # None
       /\ fs["db"] = Some(Raw(Unwrap(resp["main"].etag).tag))

\* C14 (as claimed): against a remote whose version only grows, the etag
\* file never names a newer version than the database at database.mmdb.
C14_EtagNeverAhead ==
  (IsFile("db") /\ Openable(Unwrap(fs["db"])) /\ etag # None)
    => Unwrap(etag) <= Unwrap(fs["db"]).core
====
